---- MODULE Spec2Model ----
(***************************************************************************)
(* A model of src/watch_braze_release.py: the release watcher that fetches *)
(* a release-notes page, locates the newest release section, and, when its *)
(* identifier differs from the persisted cursor, summarizes it, posts it   *)
(* to a webhook and advances the cursor.                                   *)
(*                                                                         *)
(* Text is modelled as a sequence of atoms (strings).  A markup fragment   *)
(* is a sequence of atoms in which some atoms are markup (a tag, the       *)
(* opening and closing tag of a script element, a run of character         *)
(* references that spells a tag) and every other atom is a character of    *)
(* text.  A document is the preorder list of its nodes, each with its      *)
(* depth in the tree.                                                      *)
(*                                                                         *)
(* As committed the file does not compile: the prompt assignment of lines  *)
(* 121-145 sits at column 0, which ends summarize_with_llm after line 118  *)
(* and makes line 147 an unexpected indent.  The model reads lines 121-153 *)
(* as the body of summarize_with_llm, as their content shows they are      *)
(* meant; no other function depends on them.                               *)
(***************************************************************************)
EXTENDS Integers, Sequences, FiniteSets, TLC

\* ------------------------------------------------------------------ bounds
MaxLen == 5        \* atoms in a markup fragment handed to normalize_text
MaxNodes == 4      \* nodes in a generated document
MaxDepth == 2      \* depth of a node in a generated document

\* ---------------------------------------------------------- text and markup
NL == "\n"
SP == " "
TAG == "<p>"                 \* any tag other than script/style/noscript
SCRIPT_OPEN == "<script>"    \* opening tag of a script/style/noscript element
SCRIPT_CLOSE == "</script>"  \* its closing tag
ESC_TAG == "&lt;p&gt;"       \* character references that decode to the text <p>

IsSpace(a) == a \in {NL, SP}

AllSpace(s) == \A i \in 1..Len(s) : IsSpace(s[i])

\* bs4's endData: a finished run of character data becomes one string of the
\* tree; a run that is all whitespace becomes a single newline or space.
EndData(nodes, cur) ==
    IF cur = <<>> THEN nodes
    ELSE IF AllSpace(cur)
         THEN Append(nodes, IF \E i \in 1..Len(cur) : cur[i] = NL THEN <<NL>> ELSE <<SP>>)
         ELSE Append(nodes, cur)

\* BeautifulSoup(html_fragment, "html.parser") followed by the decompose() of
\* every script/style/noscript element: the strings left in the tree, in
\* document order.  A tag ends the current string; the content of a script
\* element is dropped with it; character references are decoded into text.
RECURSIVE ParseStrings(_, _, _, _)
ParseStrings(frag, nodes, cur, inScript) ==
    IF frag = <<>> THEN EndData(nodes, IF inScript THEN <<>> ELSE cur)
    ELSE LET a == Head(frag)
             rest == Tail(frag)
         IN  IF inScript
             THEN ParseStrings(rest, nodes, <<>>, a # SCRIPT_CLOSE)
             ELSE IF a = SCRIPT_OPEN
                  THEN ParseStrings(rest, EndData(nodes, cur), <<>>, TRUE)
             ELSE IF a \in {TAG, SCRIPT_CLOSE}
                  THEN ParseStrings(rest, EndData(nodes, cur), <<>>, FALSE)
             ELSE IF a = ESC_TAG
                  THEN ParseStrings(rest, nodes, Append(cur, TAG), FALSE)
             ELSE ParseStrings(rest, nodes, Append(cur, a), FALSE)

\* soup.get_text("\n"): the strings joined by a newline.
RECURSIVE GetText(_)
GetText(nodes) ==
    IF nodes = <<>> THEN <<>>
    ELSE IF Len(nodes) = 1 THEN nodes[1]
    ELSE nodes[1] \o <<NL>> \o GetText(Tail(nodes))

\* re.sub(r"\n{3,}", "\n\n", text): a run of three or more newlines becomes two.
\* A slip in the pattern: re.sub(r"\n\n", "\n", text), every pair of newlines
\* becomes one.
RECURSIVE CollapsePairs(_, _)
CollapsePairs(s, run) ==
    IF s = <<>> THEN <<>>
    ELSE IF Head(s) = NL
         THEN IF run = 1 THEN CollapsePairs(Tail(s), 0)
              ELSE <<NL>> \o CollapsePairs(Tail(s), 1)
         ELSE <<Head(s)>> \o CollapsePairs(Tail(s), 0)

RECURSIVE CollapseNewlines(_, _)
CollapseNewlines(s, run) ==
    IF s = <<>> THEN <<>>
    ELSE IF Head(s) = NL
         THEN IF run >= 2 THEN CollapseNewlines(Tail(s), run)
              ELSE <<NL>> \o CollapseNewlines(Tail(s), run + 1)
         ELSE <<Head(s)>> \o CollapseNewlines(Tail(s), 0)

\* str.strip(): leading and trailing whitespace removed.
RECURSIVE LStrip(_)
LStrip(s) == IF s # <<>> /\ IsSpace(Head(s)) THEN LStrip(Tail(s)) ELSE s

RECURSIVE RStrip(_)
RStrip(s) ==
    IF s # <<>> /\ IsSpace(s[Len(s)]) THEN RStrip(SubSeq(s, 1, Len(s) - 1)) ELSE s

Strip(s) == RStrip(LStrip(s))

normalize_text(html_fragment) ==
    Strip(CollapseNewlines(GetText(ParseStrings(html_fragment, <<>>, <<>>, FALSE)), 0))

\* ------------------------------------------------------------ the document
\* A document is the preorder list of its nodes.  A node is
\*   div      a container element; only a div has children
\*   marker   <div class="details_title" id=...>, with its id attribute
\*   details  a <details> block
\*   h2, h3   a heading, with the words of its text
\*   p        any other element holding text
\*   txt      a bare string between elements (a NavigableString)
\* Every node but a div and a heading holds one atom of text of its own.
HeadingTags == {"h2", "h3"}

TextNames == <<"t1", "t2", "t3", "t4", "t5", "t6", "t7", "t8">>

None == 0

Depth(doc, i) == doc[i].depth

\* The last node of the subtree of node i.
SubtreeEnd(doc, i) ==
    CHOOSE j \in i..Len(doc) :
        /\ \A k \in (i + 1)..j : Depth(doc, k) > Depth(doc, i)
        /\ (j = Len(doc) \/ Depth(doc, j + 1) <= Depth(doc, i))

\* node.parent; the document itself (None here) for a top-level node.
Parent(doc, i) ==
    IF Depth(doc, i) = 1 THEN None
    ELSE CHOOSE j \in 1..(i - 1) :
            /\ Depth(doc, j) = Depth(doc, i) - 1
            /\ \A k \in (j + 1)..(i - 1) : Depth(doc, k) >= Depth(doc, i)

\* The members of a set of node indices, in document order.
RECURSIVE InOrder(_)
InOrder(S) ==
    IF S = {} THEN <<>>
    ELSE LET m == CHOOSE x \in S : \A y \in S : x <= y
         IN  <<m>> \o InOrder(S \ {m})

Children(doc, i) ==
    IF i = None THEN InOrder({k \in 1..Len(doc) : Depth(doc, k) = 1})
    ELSE InOrder({k \in (i + 1)..SubtreeEnd(doc, i) : Depth(doc, k) = Depth(doc, i) + 1})

RECURSIVE Interleave(_, _)
Interleave(words, sep) ==
    IF Len(words) <= 1 THEN words
    ELSE <<Head(words), sep>> \o Interleave(Tail(words), sep)

\* The text a node holds itself.
OwnText(doc, i) ==
    IF doc[i].kind = "div" THEN <<>>
    ELSE IF doc[i].kind \in HeadingTags THEN Interleave(doc[i].words, SP)
    ELSE <<TextNames[i]>>

\* str(node): the markup of the node and of everything below it.
RECURSIVE Markup(_, _)
RECURSIVE MarkupOfAll(_, _)
Markup(doc, i) ==
    IF i = None THEN MarkupOfAll(doc, Children(doc, None))
    ELSE IF doc[i].kind = "txt" THEN OwnText(doc, i)
    ELSE <<TAG>> \o OwnText(doc, i) \o MarkupOfAll(doc, Children(doc, i)) \o <<TAG>>

MarkupOfAll(doc, nodes) ==
    IF nodes = <<>> THEN <<>>
    ELSE Markup(doc, Head(nodes)) \o MarkupOfAll(doc, Tail(nodes))

\* "\n".join(chunks) over the markup of the given nodes.
RECURSIVE JoinChunks(_, _)
JoinChunks(doc, nodes) ==
    IF nodes = <<>> THEN <<>>
    ELSE IF Len(nodes) = 1 THEN Markup(doc, nodes[1])
    ELSE Markup(doc, nodes[1]) \o <<NL>> \o JoinChunks(doc, Tail(nodes))

\* Tag.__eq__: two tags are equal when name, attributes and contents agree.
\* Two headings with the same words are equal; the text of every other node
\* is its own, so such a node equals only itself.
TagEq(doc, a, b) ==
    /\ a # None
    /\ b # None
    /\ \/ a = b
       \/ /\ doc[a].kind \in HeadingTags
          /\ doc[a].kind = doc[b].kind
          /\ doc[a].words = doc[b].words

\* node.find_next_sibling(): the next sibling that is a tag, or None.
find_next_sibling(doc, i) ==
    LET sibs == {k \in (i + 1)..Len(doc) :
                    /\ Depth(doc, k) = Depth(doc, i)
                    /\ doc[k].kind # "txt"
                    /\ \A m \in (i + 1)..k : Depth(doc, m) >= Depth(doc, i)}
    IN  IF sibs = {} THEN None ELSE Head(InOrder(sibs))

\* node.find_next(name): the first element of that kind after the node.
find_next(doc, i, name) ==
    LET found == {k \in (i + 1)..Len(doc) : doc[k].kind = name}
    IN  IF found = {} THEN None ELSE Head(InOrder(found))

\* ------------------------------------------------------- the release locator
\* What a locator strategy returns: None, or the identifier, the title (the
\* secondary strategy's heading text; main() derives the primary's) and the
\* extracted text.
NoResult == [found |-> FALSE, id |-> <<>>, title |-> <<>>, text |-> <<>>]

Result(id, title, text) == [found |-> TRUE, id |-> id, title |-> title, text |-> text]

\* The reverse of a sequence.
RECURSIVE Reverse(_)
Reverse(q) == IF q = <<>> THEN <<>> ELSE Append(Reverse(Tail(q)), Head(q))

\* A slip in the selection: the markers oldest first, so that titles[0] is
\* the last marker of the page.
TitlesOldestFirst(doc) == Reverse(InOrder({k \in 1..Len(doc) : doc[k].kind = "marker"}))

\* soup.select("div.details_title[id]"): the markers, in document order.
Titles(doc) == InOrder({k \in 1..Len(doc) : doc[k].kind = "marker"})

\* latest_id.replace("-", " "): the title main() derives from a marker's id.
RECURSIVE ReplaceDashes(_)
ReplaceDashes(id) ==
    IF id = <<>> THEN <<>>
    ELSE <<IF Head(id) = "-" THEN SP ELSE Head(id)>> \o ReplaceDashes(Tail(id))

extract_latest_by_details_title(doc) ==
    LET titles == Titles(doc)
    IN  IF titles = <<>> THEN NoResult
        ELSE LET latest_node == titles[1]
                 latest_id == Strip(doc[latest_node].id)
                 details == find_next(doc, latest_node, "details")
             IN  IF latest_id = <<>> THEN NoResult
                 ELSE IF details = None
                      THEN Result(latest_id, <<>>,
                                  normalize_text(Markup(doc, Parent(doc, latest_node))))
                      ELSE Result(latest_id, <<>>, normalize_text(Markup(doc, details)))

\* str.lower() on the words a heading is made of.
Lower(w) ==
    CASE w = "Release" -> "release"
      [] w = "Notes" -> "notes"
      [] OTHER -> w

RECURSIVE LowerAll(_)
LowerAll(words) ==
    IF words = <<>> THEN <<>> ELSE <<Lower(Head(words))>> \o LowerAll(Tail(words))

\* re.search(r"\b20\d{2}\b", t) on one word.
IsYear20(w) == w \in {"2025", "2026"}

\* The test of lines 85 and 100: the whole word "release" in any case, and a
\* four-digit token that begins with 20.
LooksLikeRelease(words) ==
    /\ \E i \in 1..Len(words) : Lower(words[i]) = "release"
    /\ \E i \in 1..Len(words) : IsYear20(words[i])

\* soup.find_all(["h2", "h3"]): the headings, in document order.
Headings(doc) == InOrder({k \in 1..Len(doc) : doc[k].kind \in HeadingTags})

\* The first heading after position `after` of the list that looks like a
\* release heading, as an index into the list; None when there is none.
FirstMatch(doc, headings, after) ==
    LET hits == {i \in (after + 1)..Len(headings) :
                    LooksLikeRelease(doc[headings[i]].words)}
    IN  IF hits = {} THEN None ELSE Head(InOrder(hits))

\* The loop of lines 105-111: the start node and its following sibling tags,
\* until one equals the end heading or there are no more.
RECURSIVE CollectChunks(_, _, _)
CollectChunks(doc, node, end) ==
    IF node = None \/ TagEq(doc, node, end) THEN <<>>
    ELSE <<node>> \o CollectChunks(doc, find_next_sibling(doc, node), end)

extract_latest_by_release_heading(doc) ==
    LET headings == Headings(doc)
        target_idx == FirstMatch(doc, headings, 0)
    IN  IF target_idx = None THEN NoResult
        ELSE LET start == headings[target_idx]
                 heading_text == doc[start].words
                 synthetic_id == Interleave(LowerAll(heading_text), "-")
                 j == FirstMatch(doc, headings, target_idx)
                 end == IF j = None THEN None ELSE headings[j]
                 chunks == CollectChunks(doc, start, end)
             IN  Result(synthetic_id, Interleave(heading_text, SP),
                        normalize_text(JoinChunks(doc, chunks)))

\* ------------------------------------------------------------ cursor store
\* The cursor file is one of
\*   missing      no file at STATE_PATH
\*   unreadable   open() or read() raises OSError
\*   undecodable  the bytes are not UTF-8: read() raises UnicodeDecodeError
\*   blank        empty after strip()
\*   garbage      json.loads raises JSONDecodeError
\*   array        JSON, but not an object
\*   object       a JSON object; key says whether it has "last_seen_id" and
\*                whether that is a string, id is the string
File(kind, key, id) == [kind |-> kind, key |-> key, id |-> id]

Dict(key, id) == [t |-> "dict", key |-> key, id |-> id]

NotDict == [t |-> "list", key |-> "absent", id |-> <<>>]

DefaultState == Dict("string", <<>>)

\* load_state() ends in an exception no except clause catches.
load_state_raises(f) == f.kind = "undecodable"

\* What load_state() returns when it returns.
load_state(f) ==
    IF f.kind = "object" THEN Dict(f.key, f.id)
    ELSE IF f.kind = "array" THEN NotDict
    ELSE DefaultState

\* state.get("last_seen_id", "") raises: the state has no get().
get_raises(st) == st.t # "dict"

\* state.get("last_seen_id", ""): the value and whether it is a string.
get_last_seen_id(st) ==
    IF st.key = "absent" THEN [str |-> TRUE, v |-> <<>>]
    ELSE IF st.key = "string" THEN [str |-> TRUE, v |-> st.id]
    ELSE [str |-> FALSE, v |-> <<>>]

\* save_state(state) after state["last_seen_id"] = latest_id.
save_state(id) == File("object", "string", id)

\* ------------------------------------------------------------------ notifier
\* Response.raise_for_status(): a 4xx or a 5xx status raises HTTPError.
raise_for_status(code) == 400 <= code /\ code < 600

\* Lines 169-172: what post_to_slack does with the response's status.
post_to_slack_raises(code) == code >= 400 \/ raise_for_status(code)

\* ---------------------------------------------------------------------- main
TextCap == 20000

\* extracted_text[:20000]
Truncate(text) == SubSeq(text, 1, IF Len(text) < TextCap THEN Len(text) ELSE TextCap)

Upper(c) ==
    CASE c = "a" -> "A"
      [] c = "b" -> "B"
      [] OTHER -> c

IsLetter(c) == c \in {"a", "b", "A", "B"}

\* str.title(): a letter that follows a non-letter is upper-cased (the
\* identifiers of the pages below hold no upper-case letter to lower).
RECURSIVE TitleCase(_, _)
TitleCase(text, afterLetter) ==
    IF text = <<>> THEN <<>>
    ELSE <<IF afterLetter THEN Head(text) ELSE Upper(Head(text))>>
         \o TitleCase(Tail(text), IsLetter(Head(text)))

\* ------------------------------------------------------------------- state
VARIABLES
    pc,              \* where the run (or the call under test) stands
    fragment,        \* the markup handed to normalize_text
    normalized,      \* normalize_text(fragment)
    renormalized,    \* normalize_text(normalized)
    soup,            \* the parsed document
    latest,          \* what extract_latest_by_details_title returned
    fb,              \* what extract_latest_by_release_heading returned
    file,            \* state.json, the cursor file
    page,            \* the document the release-notes URL serves
    state,           \* main's state, as load_state returned it
    last_seen,       \* main's last_seen
    latest_id,       \* main's latest_id
    title,           \* main's title
    extracted_text,  \* main's extracted_text
    err,             \* the exception that ended the run, "" for none
    status,          \* the status code of the webhook's response, 0 for none
    calls,           \* history: the calls of this run to the collaborators
    located,         \* history: the locator ran on the fetched page in this run
    file_at_start,   \* history: the cursor file when this run began
    retry,           \* history: the identifier whose notification failed, while
                     \*          the page is unchanged and no notification succeeded
    delivered        \* history: the identifier notified by an earlier run, while
                     \*          the page is unchanged

vars == <<pc, fragment, normalized, renormalized, soup, latest, fb, file, page, state,
          last_seen, latest_id, title, extracted_text, err, status, calls, located,
          file_at_start, retry, delivered>>

normalizerVars == <<fragment, normalized, renormalized>>
locatorVars == <<soup, latest, fb>>
runVars == <<state, last_seen, latest_id, title, extracted_text, err, status, calls, located>>
worldVars == <<file, page, file_at_start, retry, delivered>>
mainVars == <<runVars, worldVars>>

NormalizerIdle == fragment = <<>> /\ normalized = <<>> /\ renormalized = <<>>
LocatorIdle == soup = <<>> /\ latest = NoResult /\ fb = NoResult

NoId == <<>>

RunIdle ==
    /\ state = DefaultState
    /\ last_seen = [str |-> TRUE, v |-> <<>>]
    /\ latest_id = NoId
    /\ title = <<>>
    /\ extracted_text = <<>>
    /\ err = ""
    /\ status = 0
    /\ calls = <<>>
    /\ located = FALSE

MainIdle ==
    /\ RunIdle
    /\ file = File("missing", "absent", <<>>)
    /\ page = <<>>
    /\ file_at_start = file
    /\ retry = NoId
    /\ delivered = NoId

\* ------------------------------------------- normalize_text on its own output
FragmentAtoms == {"a", NL, SP, TAG, SCRIPT_OPEN, SCRIPT_CLOSE, ESC_TAG}

InitNormalizer == pc = "input" /\ NormalizerIdle /\ LocatorIdle /\ MainIdle

\* The caller writes one more atom of the fragment.
ExtendFragment ==
    /\ pc = "input"
    /\ Len(fragment) < MaxLen
    /\ \E a \in FragmentAtoms : fragment' = Append(fragment, a)
    /\ UNCHANGED <<pc, normalized, renormalized, locatorVars, mainVars>>

CallNormalize ==
    /\ pc = "input"
    /\ normalized' = normalize_text(fragment)
    /\ pc' = "once"
    /\ UNCHANGED <<fragment, renormalized, locatorVars, mainVars>>

CallNormalizeAgain ==
    /\ pc = "once"
    /\ renormalized' = normalize_text(normalized)
    /\ pc' = "twice"
    /\ UNCHANGED <<fragment, normalized, locatorVars, mainVars>>

NextNormalizer == ExtendFragment \/ CallNormalize \/ CallNormalizeAgain

SpecNormalizer == InitNormalizer /\ [][NextNormalizer]_vars

\* --------------------------------------------------- the locator on documents
Node(kind, depth, id, words) == [kind |-> kind, depth |-> depth, id |-> id, words |-> words]

IdAttrs == {<<>>, <<" ">>, <<"a">>, <<" ", "a", " ">>, <<"b">>}

HeadingTexts == {<<"2026", "Release">>, <<"2025", "release">>, <<"2026", "Notes">>}

MarkerShapes(d) == {Node("marker", d, id, <<>>) : id \in IdAttrs}

HeadingShapes(d) ==
    {Node("h2", d, <<>>, w) : w \in HeadingTexts} \cup {Node("h3", d, <<>>, <<"2025", "release">>)}

PlainShapes(d, kinds) == {Node(k, d, <<>>, <<>>) : k \in kinds}

\* A node may follow the nodes of doc: only a div has children.
MayAppend(doc, n) ==
    /\ n.depth \in 1..MaxDepth
    /\ IF doc = <<>> THEN n.depth = 1
       ELSE \/ n.depth <= doc[Len(doc)].depth
            \/ n.depth = doc[Len(doc)].depth + 1 /\ doc[Len(doc)].kind = "div"

InitLocator == pc = "document" /\ NormalizerIdle /\ LocatorIdle /\ MainIdle

\* The page grows by one node: a marker, a details block, a paragraph, a div.
ExtendMarkerDocument ==
    /\ pc = "document"
    /\ Len(soup) < MaxNodes
    /\ \E d \in 1..MaxDepth :
         \E n \in MarkerShapes(d) \cup PlainShapes(d, {"details", "p", "div"}) :
            /\ MayAppend(soup, n)
            /\ soup' = Append(soup, n)
    /\ UNCHANGED <<pc, latest, fb, normalizerVars, mainVars>>

CallPrimary ==
    /\ pc = "document"
    /\ latest' = extract_latest_by_details_title(soup)
    /\ pc' = "located"
    /\ UNCHANGED <<soup, fb, normalizerVars, mainVars>>

NextPrimary == ExtendMarkerDocument \/ CallPrimary

SpecPrimary == InitLocator /\ [][NextPrimary]_vars

\* The page grows by one node: a heading, a paragraph, a bare string, a div.
ExtendHeadingDocument ==
    /\ pc = "document"
    /\ Len(soup) < MaxNodes
    /\ \E d \in 1..MaxDepth :
         \E n \in HeadingShapes(d) \cup PlainShapes(d, {"p", "txt", "div"}) :
            /\ MayAppend(soup, n)
            /\ soup' = Append(soup, n)
    /\ UNCHANGED <<pc, latest, fb, normalizerVars, mainVars>>

CallSecondary ==
    /\ pc = "document"
    /\ fb' = extract_latest_by_release_heading(soup)
    /\ pc' = "located"
    /\ UNCHANGED <<soup, latest, normalizerVars, mainVars>>

NextSecondary == ExtendHeadingDocument \/ CallSecondary

SpecSecondary == InitLocator /\ [][NextSecondary]_vars

\* ------------------------------------------------------------ one run of main
\* The pages the URL may serve: a release with its details block; a newer
\* release published above it; a first marker with a blank id above a release
\* heading; release headings only; nothing either strategy recognizes; a
\* marker with a blank id and no release heading.
PageA == <<Node("marker", 1, <<"a">>, <<>>), Node("details", 1, <<>>, <<>>)>>
PageB == <<Node("marker", 1, <<"b">>, <<>>), Node("details", 1, <<>>, <<>>),
           Node("marker", 1, <<"a">>, <<>>), Node("details", 1, <<>>, <<>>)>>
PageBlankId == <<Node("marker", 1, <<" ">>, <<>>), Node("h2", 1, <<>>, <<"2026", "Release">>),
                 Node("p", 1, <<>>, <<>>)>>
PageHeadings == <<Node("h2", 1, <<>>, <<"2026", "Release">>), Node("p", 1, <<>>, <<>>),
                  Node("h3", 1, <<>>, <<"2025", "release">>), Node("p", 1, <<>>, <<>>)>>
PageNeither == <<Node("p", 1, <<>>, <<>>), Node("h2", 1, <<>>, <<"2026", "Notes">>)>>
PageBlankIdOnly == <<Node("marker", 1, <<" ">>, <<>>), Node("details", 1, <<>>, <<>>)>>

Pages == {PageA, PageB, PageBlankId, PageHeadings, PageNeither, PageBlankIdOnly}

\* The cursor files a run may find.
CursorIds == {<<>>, <<"a">>, <<"b">>, <<"2026", "-", "release">>}

Files ==
    {File(k, "absent", <<>>) :
        k \in {"missing", "unreadable", "undecodable", "blank", "garbage", "array"}}
    \cup {File("object", "absent", <<>>), File("object", "number", <<>>)}
    \cup {File("object", "string", id) : id \in CursorIds}

\* The status codes the webhook may answer with (requests follows a redirect
\* that names a Location; 300 and 304 reach the caller).
StatusCodes == {200, 204, 300, 304, 400, 404, 500, 503}

Init ==
    /\ pc = "idle"
    /\ NormalizerIdle
    /\ LocatorIdle
    /\ RunIdle
    /\ file \in Files
    /\ page \in Pages
    /\ file_at_start = file
    /\ retry = NoId
    /\ delivered = NoId

\* The run ends in an exception.
Raise(e) == pc' = "failed" /\ err' = e

\* Lines 176-177: state = load_state(); last_seen = state.get("last_seen_id", "").
MainLoad ==
    /\ pc = "idle"
    /\ file_at_start' = file
    /\ IF load_state_raises(file)
       THEN Raise("UnicodeDecodeError") /\ UNCHANGED <<state, last_seen>>
       ELSE /\ state' = load_state(file)
            /\ IF get_raises(load_state(file))
               THEN Raise("AttributeError") /\ UNCHANGED last_seen
               ELSE /\ last_seen' = get_last_seen_id(load_state(file))
                    /\ pc' = "fetch"
                    /\ UNCHANGED err
    /\ UNCHANGED <<latest_id, title, extracted_text, status, calls, located>>
    /\ UNCHANGED <<file, page, retry, delivered, normalizerVars, locatorVars>>

\* Lines 179-180: html = fetch(BRAZE_HOME); soup = BeautifulSoup(html, ...).
\* The request times out, is refused or is answered with an error status, or
\* returns the page.
MainFetch ==
    /\ pc = "fetch"
    /\ \/ Raise("RequestException") /\ UNCHANGED soup
       \/ soup' = page /\ pc' = "locate" /\ UNCHANGED err
    /\ UNCHANGED <<state, last_seen, latest_id, title, extracted_text, status, calls, located>>
    /\ UNCHANGED <<latest, fb, worldVars, normalizerVars>>

\* A slip in main: no strategy finding anything does not raise, and the run
\* goes on with an empty identifier and an empty text.
MainLocateWithoutRaise ==
    /\ pc = "locate"
    /\ located' = TRUE
    /\ latest' = extract_latest_by_details_title(soup)
    /\ fb' = IF latest'.found THEN fb ELSE extract_latest_by_release_heading(soup)
    /\ latest_id' = IF latest'.found THEN latest'.id ELSE fb'.id
    /\ extracted_text' = IF latest'.found THEN latest'.text ELSE fb'.text
    /\ title' = IF latest'.found THEN TitleCase(ReplaceDashes(latest'.id), FALSE) ELSE fb'.title
    /\ pc' = "compare"
    /\ UNCHANGED <<state, last_seen, err, status, calls>>
    /\ UNCHANGED <<soup, worldVars, normalizerVars>>

\* Lines 182-190: the primary strategy, else the secondary, else RuntimeError.
MainLocate ==
    /\ pc = "locate"
    /\ located' = TRUE
    /\ latest' = extract_latest_by_details_title(soup)
    /\ IF latest'.found
       THEN /\ latest_id' = latest'.id
            /\ extracted_text' = latest'.text
            /\ title' = TitleCase(ReplaceDashes(latest'.id), FALSE)
            /\ pc' = "compare"
            /\ UNCHANGED <<fb, err>>
       ELSE /\ fb' = extract_latest_by_release_heading(soup)
            /\ IF ~fb'.found
               THEN Raise("RuntimeError") /\ UNCHANGED <<latest_id, title, extracted_text>>
               ELSE /\ latest_id' = fb'.id
                    /\ title' = fb'.title
                    /\ extracted_text' = fb'.text
                    /\ pc' = "compare"
                    /\ UNCHANGED err
    /\ UNCHANGED <<state, last_seen, status, calls>>
    /\ UNCHANGED <<soup, worldVars, normalizerVars>>

\* A slip in the comparison: latest_id == state, an identifier against the
\* whole record, which is never equal.
SameIdAgainstRecord(id, seen) == FALSE

\* latest_id == last_seen, for a last_seen that need not be a string.
SameId(id, seen) == seen.str /\ seen.v = id

\* A slip in main: the cursor is advanced as soon as a new release is seen,
\* before it is summarized and posted.
MainCompareSavesFirst ==
    /\ pc = "compare"
    /\ IF SameId(latest_id, last_seen)
       THEN pc' = "done" /\ UNCHANGED <<extracted_text, file>>
       ELSE /\ pc' = "summarize"
            /\ extracted_text' = Truncate(extracted_text)
            /\ file' = save_state(latest_id)
    /\ UNCHANGED <<state, last_seen, latest_id, title, err, status, calls, located>>
    /\ UNCHANGED <<page, file_at_start, retry, delivered, normalizerVars, locatorVars>>

\* Lines 192-198: nothing new ends the run; else the text is capped.
MainCompare ==
    /\ pc = "compare"
    /\ IF SameId(latest_id, last_seen)
       THEN pc' = "done" /\ UNCHANGED extracted_text
       ELSE pc' = "summarize" /\ extracted_text' = Truncate(extracted_text)
    /\ UNCHANGED <<state, last_seen, latest_id, title, err, status, calls, located>>
    /\ UNCHANGED <<worldVars, normalizerVars, locatorVars>>

\* A slip in main: a failure of the Summarizer is swallowed and the run goes
\* on to post.
MainSummarizeSwallows ==
    /\ pc = "summarize"
    /\ \/ calls' = Append(calls, "summarize")
       \/ calls' = calls \o <<"summarize", "summarized">>
    /\ pc' = "notify"
    /\ UNCHANGED <<state, last_seen, latest_id, title, extracted_text, err, status, located>>
    /\ UNCHANGED <<worldVars, normalizerVars, locatorVars>>

\* Line 200: summary = summarize_with_llm(extracted_text).  The call raises
\* (no API key, the request fails) or returns the summary.
MainSummarize ==
    /\ pc = "summarize"
    /\ \/ /\ calls' = Append(calls, "summarize")
          /\ Raise("SummarizerError")
       \/ /\ calls' = calls \o <<"summarize", "summarized">>
          /\ pc' = "notify"
          /\ UNCHANGED err
    /\ UNCHANGED <<state, last_seen, latest_id, title, extracted_text, status, located>>
    /\ UNCHANGED <<worldVars, normalizerVars, locatorVars>>

\* A slip in main: the cursor is saved in a finally clause, whether or not
\* the post succeeded.
MainNotifySavesAnyway ==
    /\ pc = "notify"
    /\ \E code \in StatusCodes :
            /\ status' = code
            /\ file' = save_state(latest_id)
            /\ IF post_to_slack_raises(code)
               THEN /\ calls' = Append(calls, "notify")
                    /\ Raise("NotifierError")
                    /\ retry' = latest_id
               ELSE /\ calls' = calls \o <<"notify", "notified", "save">>
                    /\ pc' = "done"
                    /\ retry' = NoId
                    /\ UNCHANGED err
    /\ UNCHANGED <<state, last_seen, latest_id, title, extracted_text, located>>
    /\ UNCHANGED <<page, file_at_start, delivered, normalizerVars, locatorVars>>

\* Line 201: post_to_slack(title, summary, BRAZE_HOME).  No webhook URL or no
\* response raises; a response raises by its status or the call returns.
MainNotify ==
    /\ pc = "notify"
    /\ \/ /\ calls' = Append(calls, "notify")
          /\ Raise("NotifierError")
          /\ retry' = latest_id
          /\ UNCHANGED status
       \/ \E code \in StatusCodes :
            /\ status' = code
            /\ IF post_to_slack_raises(code)
               THEN /\ calls' = Append(calls, "notify")
                    /\ Raise("NotifierError")
                    /\ retry' = latest_id
               ELSE /\ calls' = calls \o <<"notify", "notified">>
                    /\ pc' = "save"
                    /\ retry' = NoId
                    /\ UNCHANGED err
    /\ UNCHANGED <<state, last_seen, latest_id, title, extracted_text, located>>
    /\ UNCHANGED <<file, page, file_at_start, delivered, normalizerVars, locatorVars>>

\* Lines 204-206: state["last_seen_id"] = latest_id; save_state(state).
MainSave ==
    /\ pc = "save"
    /\ state' = Dict("string", latest_id)
    /\ file' = save_state(latest_id)
    /\ calls' = Append(calls, "save")
    /\ pc' = "done"
    /\ UNCHANGED <<last_seen, latest_id, title, extracted_text, err, status, located>>
    /\ UNCHANGED <<page, file_at_start, retry, delivered, normalizerVars, locatorVars>>

\* The process exits; the scheduler starts the next run later.
MainExit ==
    /\ pc \in {"done", "failed"}
    /\ pc' = "idle"
    /\ delivered' = IF "notified" \in {calls[i] : i \in 1..Len(calls)} THEN latest_id
                    ELSE delivered
    /\ state' = DefaultState
    /\ last_seen' = [str |-> TRUE, v |-> <<>>]
    /\ latest_id' = NoId
    /\ title' = <<>>
    /\ extracted_text' = <<>>
    /\ err' = ""
    /\ status' = 0
    /\ calls' = <<>>
    /\ located' = FALSE
    /\ soup' = <<>>
    /\ latest' = NoResult
    /\ fb' = NoResult
    /\ UNCHANGED <<file, page, file_at_start, retry, normalizerVars>>

\* Between two runs the vendor changes the page.
Publish ==
    /\ pc = "idle"
    /\ page' \in Pages \ {page}
    /\ retry' = NoId
    /\ delivered' = NoId
    /\ UNCHANGED <<pc, file, file_at_start, runVars, normalizerVars, locatorVars>>

Next ==
    \/ MainLoad
    \/ MainFetch
    \/ MainLocate
    \/ MainCompare
    \/ MainSummarize
    \/ MainNotify
    \/ MainSave
    \/ MainExit
    \/ Publish

Spec == Init /\ [][Next]_vars

\* ================================================================== claims
CallSet == {calls[i] : i \in 1..Len(calls)}

FullRun == <<"summarize", "summarized", "notify", "notified", "save">>

IsPrefix(p, q) == Len(p) <= Len(q) /\ SubSeq(q, 1, Len(p)) = p

\* The cursor file holds this identifier as its last_seen_id.
Persisted(f, id) == f.kind = "object" /\ f.key = "string" /\ f.id = id

\* The run has detected a release identifier on the fetched page.
Detected == located /\ (extract_latest_by_details_title(soup).found
                        \/ extract_latest_by_release_heading(soup).found)

RunOver == pc \in {"done", "failed"}

\* C1: within a run the cursor file is written only after post_to_slack has
\* returned in that run, and a run that ends in an exception of fetch, of the
\* locator, of the Summarizer or of the Notifier leaves the cursor file as it
\* was when the run began.
C1_CursorWrittenOnlyAfterNotify ==
    pc # "idle" =>
        /\ "save" \in CallSet => IsPrefix(<<"summarize", "summarized", "notify", "notified">>, calls)
        /\ file # file_at_start => "save" \in CallSet
        /\ pc = "failed" => file = file_at_start

C1_Witness ==
    /\ pc = "failed"
    /\ err = "NotifierError"
    /\ status = 500
    /\ Persisted(file, <<"a">>)
    /\ latest_id = <<"b">>

\* C2: a run that detects an identifier other than the persisted one (or with
\* no usable cursor) calls the Summarizer once and, once that has returned,
\* the Notifier once: the calls of the run are summarize, then notify, then
\* the cursor write, each after the one before has returned, and never a
\* notify without a summarize before it.
C2_SummarizeOnceThenNotifyOnce ==
    /\ IsPrefix(calls, FullRun)
    /\ (RunOver /\ Detected /\ ~Persisted(file_at_start, latest_id)) =>
            calls \in {<<"summarize">>, <<"summarize", "summarized", "notify">>, FullRun}
    /\ (pc \in {"notify", "save"} /\ ~Persisted(file_at_start, latest_id)) =>
            "summarized" \in CallSet

C2_Witness ==
    /\ pc = "done"
    /\ file_at_start.kind = "missing"
    /\ calls = FullRun
    /\ Persisted(file, latest_id)

\* C3: a run that detects the identifier the cursor file holds ends normally,
\* having called neither the Summarizer nor the Notifier and having left the
\* cursor file alone.
C3_NothingNewNothingDone ==
    (Detected /\ pc # "compare" /\ Persisted(file_at_start, latest_id)) =>
        /\ pc = "done"
        /\ err = ""
        /\ calls = <<>>
        /\ file = file_at_start

C3_Witness ==
    /\ pc = "done"
    /\ Detected
    /\ Persisted(file_at_start, latest_id)
    /\ latest_id = <<"2026", "-", "release">>

\* C4: when the fetched page matches neither strategy the run ends in the
\* RuntimeError of line 189 and calls neither the Summarizer nor the Notifier
\* nor writes the cursor file.
C4_NeitherStrategyIsFatal ==
    (located /\ ~extract_latest_by_details_title(soup).found
             /\ ~extract_latest_by_release_heading(soup).found) =>
        /\ pc = "failed"
        /\ err = "RuntimeError"
        /\ calls = <<>>
        /\ file = file_at_start

C4_Witness ==
    /\ pc = "failed"
    /\ err = "RuntimeError"
    /\ soup = PageNeither
    /\ located

\* C5: whatever the cursor file is, other than a record with a last_seen_id
\* string, loading it raises nothing and the cursor is the empty string.
C5_LoadNeverFails ==
    (pc # "idle" /\ ~(file_at_start.kind = "object" /\ file_at_start.key = "string")) =>
        /\ err \notin {"UnicodeDecodeError", "AttributeError"}
        /\ last_seen = [str |-> TRUE, v |-> <<>>]

\* C6: a response of the webhook with a status outside 200-299 ends the run in
\* an exception, and the cursor is not advanced.
C6_Non2xxIsFatal ==
    (status # 0 /\ ~(200 <= status /\ status <= 299)) =>
        /\ pc = "failed"
        /\ file = file_at_start

MarkerSet(doc) == {k \in 1..Len(doc) : doc[k].kind = "marker"}

FirstMarker(doc) == CHOOSE k \in MarkerSet(doc) : \A j \in MarkerSet(doc) : k <= j

C8_FirstMarkerTrimmed ==
    (/\ pc = "located"
     /\ MarkerSet(soup) # {}
     /\ \A k \in MarkerSet(soup) : Strip(soup[k].id) # <<>>) =>
        /\ latest.found
        /\ latest.id = Strip(soup[FirstMarker(soup)].id)

C8_Witness ==
    /\ pc = "located"
    /\ Cardinality(MarkerSet(soup)) = 2
    /\ \A k \in MarkerSet(soup) : Strip(soup[k].id) # <<>>
    /\ soup[FirstMarker(soup)].id = <<" ", "a", " ">>
    /\ latest.id = <<"a">>
    /\ \E k \in MarkerSet(soup) : soup[k].id = <<"b">>

\* C8 as stated: for a document whose markers all have a non-empty id
\* attribute, the primary strategy returns the first marker's id attribute.
C8_FirstMarkerId ==
    (/\ pc = "located"
     /\ MarkerSet(soup) # {}
     /\ \A k \in MarkerSet(soup) : soup[k].id # <<>>) =>
        /\ latest.found
        /\ latest.id = soup[FirstMarker(soup)].id

\* C9: the body the secondary strategy extracts is the text of the first
\* matching heading and of every node after it in the document, up to the
\* next matching heading or, without one, the end of the document.
ReleaseHeadings(doc) ==
    {k \in 1..Len(doc) : doc[k].kind \in HeadingTags /\ LooksLikeRelease(doc[k].words)}

NonSpace(text) == SelectSeq(text, LAMBDA a : ~IsSpace(a))

RECURSIVE TextOfNodes(_, _, _)
TextOfNodes(doc, lo, hi) ==
    IF lo > hi THEN <<>>
    ELSE NonSpace(OwnText(doc, lo)) \o TextOfNodes(doc, lo + 1, hi)

SectionText(doc) ==
    LET start == CHOOSE k \in ReleaseHeadings(doc) : \A j \in ReleaseHeadings(doc) : k <= j
        later == ReleaseHeadings(doc) \ {start}
        end == IF later = {} THEN Len(doc) + 1
               ELSE CHOOSE k \in later : \A j \in later : k <= j
    IN  TextOfNodes(doc, start, end - 1)

C9_BodyRunsToNextReleaseHeading ==
    (pc = "located" /\ ReleaseHeadings(soup) # {}) =>
        /\ fb.found
        /\ NonSpace(fb.text) = SectionText(soup)

\* C10 (amended): normalizing the output of normalize_text again changes
\* nothing, provided the output holds no markup character (no text that
\* character references spelled as a tag).
NoMarkup(text) == \A i \in 1..Len(text) : text[i] \notin {TAG, SCRIPT_OPEN, SCRIPT_CLOSE, ESC_TAG}

C10_IdempotentOnPlainText ==
    (pc = "twice" /\ NoMarkup(normalized)) => renormalized = normalized

C10_Witness ==
    /\ pc = "twice"
    /\ fragment = <<"a", TAG, NL, TAG, "a">>
    /\ normalized = <<"a", NL, NL, "a">>
    /\ renormalized = normalized

\* C10 as stated: normalizing the output of normalize_text again changes
\* nothing, for every fragment.
C10_Idempotent == pc = "twice" => renormalized = normalized

====
